---- MODULE Spec2Model ----
(***************************************************************************)
(* Model of lib/libshare/nfs.c: the NFS export-table manager.              *)
(*                                                                         *)
(* Several processes call nfs_enable_share, nfs_disable_share and          *)
(* nfs_is_shared against one exports file (ZFS_EXPORTS_FILE) and one lock  *)
(* file (ZFS_EXPORTS_LOCK).  The model follows the fcntl-based             *)
(* nfs_exports_lock / nfs_exports_unlock pair (nfs.c:269-340) that         *)
(* nfs_enable_share and nfs_disable_share are written against.             *)
(*                                                                         *)
(* Representation.  A C string is a sequence of chunks (TLA+ strings)      *)
(* whose concatenation, Text(s), is the string's bytes.  The characters    *)
(* the code searches for (',' '=' ':' '@' ' ' and newline) are always      *)
(* chunks of their own, so strchr is a search for a chunk and strcmp is    *)
(* equality of Text.  A nullable pointer is NULL (<<>>) or Ptr(s) (<<s>>). *)
(* A file is a nullable byte string: NULL when the path does not exist.    *)
(***************************************************************************)
EXTENDS Integers, Sequences, FiniteSets, TLC

VARIABLES
    world,            \* the arguments the calls are made with
    exports,          \* ZFS_EXPORTS_FILE: NULL (absent) or Ptr(content)
    tmpfile,          \* per process: the mkstemp file, NULL or Ptr(content)
    lock_owner,       \* the process holding the fcntl write lock, or NoProc
    exports_lock_fd,  \* per process: static int exports_lock_fd
    pc,               \* per process: position in the running call
    call,             \* per process: the running (or last) call and its arguments
    linux_opts,       \* per process: nfs_enable_share's linux_opts
    hosts,            \* per process: the nfs_add_entry invocations of the scan
    hidx,             \* per process: how many of them were made
    error,            \* per process: the local variable error
    ret,              \* per process: what the last call returned
    pre,              \* per process: the exports file when the call started
    base,             \* per process: the temp file as nfs_copy_entries left it
    fault,            \* per process: a system call failed during the call
    ncalls,           \* per process: calls started
    faults,           \* system-call failures injected so far
    exported          \* per mountpoint: the lines its calls have left exported

vars == <<world, exports, tmpfile, lock_owner, exports_lock_fd, pc, call,
          linux_opts, hosts, hidx, error, ret, pre, base, fault, ncalls, faults,
          exported>>

\* The file at ZFS_EXPORTS_FILE, "/etc/exports.d/zfs.exports" (nfs.c:45).
ZFS_EXPORTS_FILE == exports

\* The file at ZFS_EXPORTS.  nfs.c uses the name without defining it; the
\* comment over nfs_exports_entry (nfs.c:343-345) names the file it opens,
\* ZFS_EXPORTS, as /etc/exports.d/zfs.exports, and nfs_exports_lock makes
\* its directory: it is the exports file.
ZFS_EXPORTS == ZFS_EXPORTS_FILE

\* Calls one process starts in the concurrent specification.
MaxCalls == 2
\* Calls the two processes start between them.
MaxTotalCalls == 2
\* Calls the process starts in the sequential specification.
MaxSeqCalls == 3
\* System-call failures injected in one behaviour.
MaxFaults == 1
\* Calls the process starts when it also calls the guard itself.
MaxGuardCalls == 3
\* Calls each of the two fairly scheduled processes makes.
MaxFairCalls == 1
\* Calls the process starts where the export map is kept.
MaxMapCalls == 3

----------------------------------------------------------------------------
(* Strings *)

NULL == <<>>
Ptr(s) == <<s>>
Deref(p) == p[1]

RECURSIVE Text(_)
Text(s) == IF s = <<>> THEN "" ELSE Head(s) \o Text(Tail(s))

strlen(s) == Len(Text(s))
streq(a, b) == Text(a) = Text(b)

\* Index of the first chunk c in s, 0 when there is none.
strchr(s, c) ==
    IF \E i \in 1..Len(s) : s[i] = c
    THEN CHOOSE i \in 1..Len(s) : s[i] = c /\ \A j \in 1..(i - 1) : s[j] # c
    ELSE 0

SA_OK == "SA_OK"
SA_SYSTEM_ERR == "SA_SYSTEM_ERR"
SA_SYNTAX_ERR == "SA_SYNTAX_ERR"
SA_NO_MEMORY == "SA_NO_MEMORY"
\* What nfs_exports_lock returns for a failed system call, and
\* nfs_exports_unlock's -1.
ERRNO == "errno"
MINUS_ONE == "-1"
B_TRUE == "B_TRUE"
B_FALSE == "B_FALSE"

----------------------------------------------------------------------------
(* foreach_nfs_shareopt: the tokenizer *)

\* The segments of s between ',' chunks (the inner while loop, nfs.c:113-122).
RECURSIVE Segments(_)
Segments(s) ==
    LET cur == strchr(s, ",")
    IN  IF cur = 0 THEN <<s>>
        ELSE <<SubSeq(s, 1, cur - 1)>> \o Segments(SubSeq(s, cur + 1, Len(s)))

\* One token split at its first '=' (nfs.c:125-130).
KeyValue(opt) ==
    LET value == strchr(opt, "=")
    IN  IF value = 0 THEN [opt |-> opt, value |-> NULL]
        ELSE [opt |-> SubSeq(opt, 1, value - 1),
              value |-> Ptr(SubSeq(opt, value + 1, Len(opt)))]

\* The callback invocations of one scan, in order: empty segments are
\* skipped (cur > opt), "on" stands for "rw,crossmnt", NULL has no token.
ShareoptTokens(shareopts) ==
    IF shareopts = NULL THEN <<>>
    ELSE LET s == IF Text(Deref(shareopts)) = "on"
                  THEN <<"rw", ",", "crossmnt">> ELSE Deref(shareopts)
             segs == Segments(s)
             kept == SelectSeq(segs, LAMBDA g : Len(g) > 0)
         IN  [i \in 1..Len(kept) |-> KeyValue(kept[i])]

----------------------------------------------------------------------------
(* Option translation *)

add_linux_shareopt(plinux_opts, key, value) ==
    LET old == IF plinux_opts # NULL THEN Deref(plinux_opts) ELSE <<>>
        len == IF plinux_opts # NULL THEN strlen(old) ELSE 0
    IN  Ptr(old \o (IF len > 0 THEN <<",">> ELSE <<>>) \o key
                \o (IF value # NULL THEN <<"=">> \o Deref(value) ELSE <<>>))

AllowedKeys ==
    {"insecure", "secure", "async", "sync", "no_wdelay", "wdelay", "nohide",
     "hide", "crossmnt", "no_subtree_check", "subtree_check",
     "insecure_locks", "secure_locks", "no_auth_nlm", "auth_nlm", "no_acl",
     "mountpoint", "mp", "fsuid", "refer", "replicas", "root_squash",
     "no_root_squash", "all_squash", "no_all_squash", "fsid", "anonuid",
     "anongid"}

\* The callback without its renaming of anon, root_mapping and nosub.
get_linux_shareopts_cb_norename(key, value, plinux_opts) ==
    IF Text(key) \in {"ro", "rw", "sec"}
    THEN [rc |-> SA_OK, cookie |-> plinux_opts]
    ELSE IF Text(key) \notin AllowedKeys
         THEN [rc |-> SA_SYNTAX_ERR, cookie |-> plinux_opts]
         ELSE [rc |-> SA_OK, cookie |-> add_linux_shareopt(plinux_opts, key, value)]

get_linux_shareopts_cb(key, value, plinux_opts) ==
    IF Text(key) \in {"ro", "rw", "sec"}
    THEN [rc |-> SA_OK, cookie |-> plinux_opts]
    ELSE LET k1 == IF Text(key) = "anon" THEN <<"anonuid">> ELSE key
             o2 == IF Text(k1) = "root_mapping"
                   THEN add_linux_shareopt(plinux_opts, <<"root_squash">>, NULL)
                   ELSE plinux_opts
             k2 == IF Text(k1) = "root_mapping" THEN <<"anonuid">> ELSE k1
             k3 == IF Text(k2) = "nosub" THEN <<"subtree_check">> ELSE k2
         IN  IF Text(k3) \notin AllowedKeys
             THEN [rc |-> SA_SYNTAX_ERR, cookie |-> o2]
             ELSE [rc |-> SA_OK, cookie |-> add_linux_shareopt(o2, k3, value)]

----------------------------------------------------------------------------
(* Host expansion *)

\* The value taken as one host (the ':' never looked for).
HostListUnsplit(host) == <<host>>

\* The hosts of a ro/rw value, split at ':' (the do-while, nfs.c:192-210).
RECURSIVE HostList(_)
HostList(host) ==
    LET next == strchr(host, ":")
    IN  IF next = 0 THEN <<host>>
        ELSE <<SubSeq(host, 1, next - 1)>>
             \o HostList(SubSeq(host, next + 1, Len(host)))

\* The callback that takes no notice of sec tokens.
foreach_nfs_host_cb_nosec(opt, value, udata) ==
    LET calls ==
            IF Text(opt) = "rw" \/ Text(opt) = "ro"
            THEN LET v == IF value = NULL THEN <<"*">> ELSE Deref(value)
                     hl == HostList(v)
                 IN  [i \in 1..Len(hl) |->
                        [host |-> hl[i], security |-> udata.security,
                         access |-> opt]]
            ELSE <<>>
    IN  [rc |-> SA_OK,
         cookie |-> [security |-> udata.security, calls |-> udata.calls \o calls]]

\* udata is [security, calls]: the current security and the callback
\* invocations made so far, each [host, security, access].
foreach_nfs_host_cb(opt, value, udata) ==
    LET security == IF Text(opt) = "sec" THEN value ELSE udata.security
        calls ==
            IF Text(opt) = "rw" \/ Text(opt) = "ro"
            THEN LET v == IF value = NULL THEN <<"*">> ELSE Deref(value)
                     hl == HostList(v)
                 IN  [i \in 1..Len(hl) |->
                        [host |-> hl[i], security |-> security, access |-> opt]]
            ELSE <<>>
    IN  [rc |-> SA_OK,
         cookie |-> [security |-> security, calls |-> udata.calls \o calls]]

\* The callback a function pointer names, called (nfs.c:132).
Callback(callback, opt, value, cookie) ==
    IF callback = "get_linux_shareopts_cb"
    THEN get_linux_shareopts_cb(opt, value, cookie)
    ELSE foreach_nfs_host_cb(opt, value, cookie)

\* foreach_nfs_shareopt: callback on each token with the cookie threaded
\* through; the scan stops at the first rc other than SA_OK.
RECURSIVE ForeachTokens(_, _, _)
ForeachTokens(toks, callback, cookie) ==
    IF toks = <<>> THEN [rc |-> SA_OK, cookie |-> cookie]
    ELSE LET r == Callback(callback, Head(toks).opt, Head(toks).value, cookie)
         IN  IF r.rc # SA_OK THEN r
             ELSE ForeachTokens(Tail(toks), callback, r.cookie)

foreach_nfs_shareopt(shareopts, callback, cookie) ==
    ForeachTokens(ShareoptTokens(shareopts), callback, cookie)

get_linux_shareopts(shareopts) ==
    LET o1 == add_linux_shareopt(NULL, <<"no_subtree_check">>, NULL)
        o2 == add_linux_shareopt(o1, <<"mountpoint">>, NULL)
        r  == foreach_nfs_shareopt(shareopts, "get_linux_shareopts_cb", o2)
    IN  IF r.rc # SA_OK THEN [rc |-> r.rc, linux_opts |-> NULL]
        ELSE [rc |-> SA_OK, linux_opts |-> r.cookie]

\* foreach_nfs_host: the invocations of the callback the scan makes when
\* every invocation returns SA_OK.
foreach_nfs_host(shareopts) ==
    foreach_nfs_shareopt(shareopts, "foreach_nfs_host_cb",
        [security |-> Ptr(<<"sys">>), calls |-> <<>>]).cookie.calls

\* The specifier passed on as it is, '@' and all.
get_linux_hostspec_keep(solaris_hostspec) == solaris_hostspec

get_linux_hostspec(solaris_hostspec) ==
    IF Len(solaris_hostspec) > 0 /\ Head(solaris_hostspec) = "@"
    THEN Tail(solaris_hostspec)
    ELSE solaris_hostspec

----------------------------------------------------------------------------
(* The exports file *)

\* getline: the lines of a file, each with its newline (the last one may
\* have none).
RECURSIVE Lines(_)
Lines(content) ==
    LET nl == strchr(content, "\n")
    IN  IF content = <<>> THEN <<>>
        ELSE IF nl = 0 THEN <<content>>
        ELSE <<SubSeq(content, 1, nl)>>
             \o Lines(SubSeq(content, nl + 1, Len(content)))

RECURSIVE Concat(_)
Concat(lines) == IF lines = <<>> THEN <<>> ELSE Head(lines) \o Concat(Tail(lines))

\* nfs_copy_entries' test of one line (nfs.c:636-642): the text before the
\* first space has the mountpoint's length and its bytes.
CopySkipsLine(buf, mountpoint) ==
    LET space == strchr(buf, " ")
    IN  /\ space # 0
        /\ strlen(SubSeq(buf, 1, space - 1)) = strlen(mountpoint)
        /\ streq(mountpoint, SubSeq(buf, 1, space - 1))

\* nfs_copy_entries: the temp file afterwards.  Without an exports file the
\* temp file is left as it is; otherwise it is rewritten ("w+") with the
\* lines that are not the mountpoint's.
nfs_copy_entries(old, tmp, mountpoint) ==
    IF old = NULL THEN tmp
    ELSE Ptr(Concat(SelectSeq(Lines(Deref(old)),
                LAMBDA buf : ~CopySkipsLine(buf, mountpoint))))

\* The test without its length comparison: the mountpoint need only begin
\* the line.
SharedLineMatchesPrefix(buf, mountpoint) ==
    /\ strchr(buf, " ") # 0
    /\ Len(buf) >= Len(mountpoint)
    /\ streq(mountpoint, SubSeq(buf, 1, Len(mountpoint)))

\* nfs_is_shared's test of one line (nfs.c:764-769).
SharedLineMatches(buf, mountpoint) ==
    LET space == strchr(buf, " ")
    IN  /\ space # 0
        /\ strlen(SubSeq(buf, 1, space - 1)) = strlen(mountpoint)
        /\ streq(mountpoint, SubSeq(buf, 1, space - 1))

\* The scan that answers B_TRUE unless a line fails the test.
nfs_is_shared_unless(file, mountpoint) ==
    IF file = NULL THEN B_FALSE
    ELSE IF \A i \in 1..Len(Lines(Deref(file))) :
                SharedLineMatches(Lines(Deref(file))[i], mountpoint)
         THEN B_TRUE
         ELSE B_FALSE

nfs_is_shared(file, mountpoint) ==
    IF file = NULL THEN B_FALSE
    ELSE IF \E i \in 1..Len(Lines(Deref(file))) :
                SharedLineMatches(Lines(Deref(file))[i], mountpoint)
         THEN B_TRUE
         ELSE B_FALSE

\* What fprintf's %s makes of a nullable string.  A null pointer is
\* undefined behaviour: the C library prints "(null)" or the process dies
\* (NULL stands for the crash).
PrintfString(s) == IF s = NULL THEN {Ptr(<<"(null)">>), NULL} ELSE {s}

\* The line with the access class and the security mode in each other's
\* place.
nfs_add_entry_swapped(sharepath, host, security, access, plinux_opts) ==
    LET linuxhost == get_linux_hostspec(host)
        opts == IF plinux_opts = NULL THEN <<>> ELSE Deref(plinux_opts)
    IN  sharepath \o <<" ">> \o linuxhost \o <<"(sec=">> \o access
            \o <<",">> \o security \o <<",">> \o opts \o <<")", "\n">>

\* The line nfs_add_entry appends (nfs.c:412-428), security already printed.
nfs_add_entry(sharepath, host, security, access, plinux_opts) ==
    LET linuxhost == get_linux_hostspec(host)
        opts == IF plinux_opts = NULL THEN <<>> ELSE Deref(plinux_opts)
    IN  sharepath \o <<" ">> \o linuxhost \o <<"(sec=">> \o security
            \o <<",">> \o access \o <<",">> \o opts \o <<")", "\n">>

----------------------------------------------------------------------------
(* Processes and arguments *)

NoProc == "none"

\* Mountpoints: sa_mountpoint is any path, so one of them holds a space.
MP_a == <<"/a">>
MP_data == <<"/data">>
MP_a_b == <<"/a", " ", "b">>

\* Share options: FSINFO(impl_share, nfs_fstype)->shareopts.
Opt_rw == Ptr(<<"rw">>)
Opt_on == Ptr(<<"on">>)
Opt_hosts_sec == Ptr(<<"rw", "=", "host1", ":", "host2", ",", "sec", "=", "krb5">>)
Opt_example ==
    Ptr(<<"rw", "=", "192.168.1.0/24", ",", "sec", "=", "sys", ",", "no_root_squash">>)
Opt_sec_ro == Ptr(<<"sec", "=", "krb5", ",", "ro", "=", "@", "10.0.0.0/8">>)
Opt_bad == Ptr(<<"frobnicate">>)
Opt_rw_bad == Ptr(<<"rw", ",", "frobnicate">>)
Opt_sec_only == Ptr(<<"sec", "=", "sys">>)
Opt_sec_null == Ptr(<<"sec", ",", "rw">>)
Opt_sec_twice ==
    Ptr(<<"sec", "=", "krb5", ",", "ro", "=", "host1", ",",
          "sec", "=", "krb5i", ",", "rw", "=", "host2", ":", "host3">>)
Opt_renames ==
    Ptr(<<"anon", "=", "0", ",", ",", "root_mapping", "=", "5", ",", "nosub",
          ",", "crossmnt", ",", "crossmnt", ",", "rw">>)

\* Two processes, few arguments: the interleavings are the subject.
ConcurrentWorld ==
    [mountpoints |-> {MP_a, MP_data},
     shareopts |-> {Opt_rw, Opt_rw_bad},
     maxcalls |-> MaxCalls,
     maxtotal |-> MaxTotalCalls]

\* One process, many arguments: the calls follow one another.
SequentialWorld ==
    [mountpoints |-> {MP_a, MP_data, MP_a_b},
     shareopts |-> {NULL, Opt_rw, Opt_on, Opt_hosts_sec, Opt_example,
                    Opt_sec_ro, Opt_bad, Opt_rw_bad, Opt_sec_only, Opt_sec_null,
                    Opt_sec_twice, Opt_renames},
     maxcalls |-> MaxSeqCalls,
     maxtotal |-> MaxSeqCalls]

\* One process that also calls nfs_exports_lock and nfs_exports_unlock
\* itself (they are not static).
GuardWorld ==
    [mountpoints |-> {MP_a, MP_data},
     shareopts |-> {Opt_rw, Opt_bad},
     maxcalls |-> MaxGuardCalls,
     maxtotal |-> MaxGuardCalls]

\* Two processes, one call each, an option string that translates and one
\* that does not: the scheduling is the subject.
FairWorld ==
    [mountpoints |-> {MP_a},
     shareopts |-> {Opt_rw, Opt_bad},
     maxcalls |-> MaxFairCalls,
     maxtotal |-> MaxFairCalls + 1]

\* One process whose calls are followed in the export map.
MapWorld ==
    [mountpoints |-> {MP_a, MP_data},
     shareopts |-> {Opt_rw, Opt_hosts_sec, Opt_bad},
     maxcalls |-> MaxMapCalls,
     maxtotal |-> MaxMapCalls]

Procs == {"p1", "p2"}

NoCall == [op |-> "none", mountpoint |-> <<>>, shareopts |-> NULL]

InitWith(w) ==
    /\ world = w
    /\ exports = NULL
    /\ tmpfile = [p \in Procs |-> NULL]
    /\ lock_owner = NoProc
    /\ exports_lock_fd = [p \in Procs |-> -1]
    /\ pc = [p \in Procs |-> "idle"]
    /\ call = [p \in Procs |-> NoCall]
    /\ linux_opts = [p \in Procs |-> NULL]
    /\ hosts = [p \in Procs |-> <<>>]
    /\ hidx = [p \in Procs |-> 0]
    /\ error = [p \in Procs |-> SA_OK]
    /\ ret = [p \in Procs |-> "none"]
    /\ pre = [p \in Procs |-> NULL]
    /\ base = [p \in Procs |-> NULL]
    /\ fault = [p \in Procs |-> FALSE]
    /\ ncalls = [p \in Procs |-> 0]
    /\ faults = 0
    /\ exported = [m \in w.mountpoints |-> <<>>]

Init == InitWith(ConcurrentWorld)
InitSeq == InitWith(SequentialWorld)
InitGuard == InitWith(GuardWorld)
InitFair == InitWith(FairWorld)
InitMap == InitWith(MapWorld)

----------------------------------------------------------------------------
(* Steps shared by the calls *)

\* A system call of p fails: counted, and remembered for the running call.
Fails(p) ==
    /\ faults < MaxFaults
    /\ faults' = faults + 1
    /\ fault' = [fault EXCEPT ![p] = TRUE]

NoFailure == UNCHANGED <<faults, fault>>

\* verify()/VERIFY0() fails, or the C library crashes: the process dies and
\* the kernel drops its fcntl lock.
Abort(p) ==
    /\ pc' = [pc EXCEPT ![p] = "aborted"]
    /\ lock_owner' = IF lock_owner = p THEN NoProc ELSE lock_owner

\* The call p starts: the arguments, and the exports file as it finds it.
Begin(p, op, mountpoint, shareopts, first) ==
    /\ pc[p] = "idle"
    /\ ncalls[p] < world.maxcalls
    /\ ncalls["p1"] + ncalls["p2"] < world.maxtotal
    /\ ncalls' = [ncalls EXCEPT ![p] = @ + 1]
    /\ call' = [call EXCEPT ![p] =
                  [op |-> op, mountpoint |-> mountpoint, shareopts |-> shareopts]]
    /\ pre' = [pre EXCEPT ![p] = exports]
    /\ base' = [base EXCEPT ![p] = NULL]
    /\ fault' = [fault EXCEPT ![p] = FALSE]
    /\ pc' = [pc EXCEPT ![p] = first]

\* The locals of nfs_enable_share that end with the call.
locals == <<linux_opts, hosts, hidx, error>>

\* The lines call c generates: one per host entry, in encounter order (a
\* null security mode as the C library prints it).
RenderedLines(c) ==
    LET calls == foreach_nfs_host(c.shareopts)
        opts == get_linux_shareopts(c.shareopts).linux_opts
    IN  [i \in 1..Len(calls) |->
            nfs_add_entry(c.mountpoint, calls[i].host,
                IF calls[i].security = NULL THEN <<"(null)">>
                ELSE Deref(calls[i].security),
                calls[i].access, opts)]

Texts(lines) == [i \in 1..Len(lines) |-> Text(lines[i])]

\* The export map after call c has returned rc: a successful enable of a
\* mountpoint leaves it exported with the lines the call generated, a
\* successful disable leaves it unexported, every other call leaves the map
\* as it was.  The map is a history of the calls, not state of the program;
\* it is kept in MapWorld only.
ExportMap(c, rc) ==
    IF world # MapWorld THEN exported
    ELSE IF rc = SA_OK /\ c.op = "enable"
    THEN [exported EXCEPT ![c.mountpoint] = Texts(RenderedLines(c))]
    ELSE IF rc = SA_OK /\ c.op = "disable"
    THEN [exported EXCEPT ![c.mountpoint] = <<>>]
    ELSE exported

\* The call of p returns rc.
Return(p, rc) ==
    /\ pc' = [pc EXCEPT ![p] = "idle"]
    /\ ret' = [ret EXCEPT ![p] = rc]
    /\ exported' = ExportMap(call[p], rc)
    /\ linux_opts' = [linux_opts EXCEPT ![p] = NULL]
    /\ hosts' = [hosts EXCEPT ![p] = <<>>]
    /\ hidx' = [hidx EXCEPT ![p] = 0]
    /\ error' = [error EXCEPT ![p] = SA_OK]

\* A lock that is never granted.
LockGrantedNever(p) == FALSE

\* The lock taken without regard to its holder (a lock request that does
\* not exclude).
LockGrantedAlways(p) == TRUE

\* F_SETLKW grants the write lock to p only when no process holds it;
\* until then the caller sleeps.
LockGranted(p) == lock_owner = NoProc

----------------------------------------------------------------------------
(* nfs_enable_share and nfs_disable_share, step by step *)

\* nfs_enable_share is called (nfs.c:680-685).
EnableShare(p) ==
    /\ \E mountpoint \in world.mountpoints, shareopts \in world.shareopts :
          Begin(p, "enable", mountpoint, shareopts, "init_tmp")
    /\ UNCHANGED <<world, exports, tmpfile, lock_owner, exports_lock_fd,
                   linux_opts, hosts, hidx, error, ret, exported, faults>>

\* nfs_disable_share is called (nfs.c:718-721).
DisableShare(p) ==
    /\ \E mountpoint \in world.mountpoints :
          Begin(p, "disable", mountpoint, NULL, "init_tmp")
    /\ UNCHANGED <<world, exports, tmpfile, lock_owner, exports_lock_fd,
                   linux_opts, hosts, hidx, error, ret, exported, faults>>

\* nfs_init_tmpfile (nfs.c:583-601): mkstemp makes an empty file of a new
\* name; when asprintf or mkstemp fails the call returns SA_SYSTEM_ERR.
InitTmpfile(p) ==
    /\ pc[p] = "init_tmp"
    /\ \/ /\ tmpfile' = [tmpfile EXCEPT ![p] = Ptr(<<>>)]
          /\ pc' = [pc EXCEPT ![p] = "lock"]
          /\ NoFailure
          /\ UNCHANGED <<ret, exported, locals>>
       \/ /\ Fails(p)
          /\ Return(p, SA_SYSTEM_ERR)
          /\ UNCHANGED tmpfile
    /\ UNCHANGED <<world, exports, lock_owner, exports_lock_fd, call, pre,
                   base, ncalls>>

\* nfs_exports_lock or nfs_exports_unlock returns the error rc.  Called by
\* the program itself (op "lock", "unlock") the error is returned; inside
\* nfs_enable_share and nfs_disable_share VERIFY0 ends the process on it
\* (nfs.c:690, 698, 711, 726, 729).  closed: the lock descriptor was closed
\* on the way, which drops a lock the process holds.
GuardFails(p, rc, closed) ==
    IF call[p].op \in {"lock", "unlock"}
    THEN /\ Return(p, rc)
         /\ lock_owner' = IF closed /\ lock_owner = p THEN NoProc ELSE lock_owner
    ELSE /\ Abort(p)
         /\ UNCHANGED <<ret, exported, locals>>

\* nfs_exports_lock up to the fcntl (nfs.c:269-303).  strdup fails before
\* anything is looked at; then verify ends the process when the descriptor
\* is not -1; mkdir or open fails with the descriptor at -1; fcntl waits
\* for the write lock, and when it fails the descriptor is closed but
\* exports_lock_fd keeps its number.
ExportsLock(p) ==
    /\ pc[p] = "lock"
    /\ \/ /\ Fails(p)
          /\ \E rc \in {SA_NO_MEMORY} \cup
                       (IF exports_lock_fd[p] = -1 THEN {ERRNO} ELSE {}) :
                GuardFails(p, rc, FALSE)
          /\ UNCHANGED exports_lock_fd
       \/ IF exports_lock_fd[p] # -1
          THEN /\ Abort(p)
               /\ NoFailure
               /\ UNCHANGED <<exports_lock_fd, ret, exported, locals>>
          ELSE \/ /\ LockGranted(p)
                  /\ lock_owner' = p
                  /\ exports_lock_fd' = [exports_lock_fd EXCEPT ![p] = 3]
                  /\ pc' = [pc EXCEPT ![p] = "lock_remove"]
                  /\ NoFailure
                  /\ UNCHANGED <<ret, exported, locals>>
               \/ /\ Fails(p)
                  /\ exports_lock_fd' = [exports_lock_fd EXCEPT ![p] = 3]
                  /\ GuardFails(p, ERRNO, TRUE)
    /\ UNCHANGED <<world, exports, tmpfile, call, pre, base, ncalls>>

\* An acquire that leaves an exports file it finds as it is and creates
\* an empty one only when there is none.
ExportsLockKept(p) ==
    /\ pc[p] = "lock_remove"
    /\ ZFS_EXPORTS' = (IF ZFS_EXPORTS = NULL THEN Ptr(<<>>) ELSE ZFS_EXPORTS)
    /\ IF call[p].op = "lock"
       THEN Return(p, SA_OK)
       ELSE /\ pc' = [pc EXCEPT ![p] = "copy"]
            /\ UNCHANGED <<ret, exported, locals>>
    /\ NoFailure
    /\ UNCHANGED <<world, tmpfile, lock_owner, exports_lock_fd, call, pre,
                   base, ncalls>>

\* nfs_exports_lock, nfs.c:305-311: an existing ZFS_EXPORTS is removed.
\* When remove fails the lock descriptor is closed (the lock is dropped),
\* exports_lock_fd keeps its number and errno is returned.
ExportsLockRemove(p) ==
    /\ pc[p] = "lock_remove"
    /\ \/ /\ ZFS_EXPORTS' = NULL
          /\ pc' = [pc EXCEPT ![p] = "lock_creat"]
          /\ NoFailure
          /\ UNCHANGED <<lock_owner, ret, exported, locals>>
       \/ /\ ZFS_EXPORTS # NULL
          /\ Fails(p)
          /\ GuardFails(p, ERRNO, TRUE)
          /\ UNCHANGED exports
    /\ UNCHANGED <<world, tmpfile, exports_lock_fd, call, pre, base, ncalls>>

\* nfs_exports_lock, nfs.c:313-320: creat(ZFS_EXPORTS) leaves an empty
\* file and the lock is taken (return 0); when creat fails the descriptor
\* is closed as above.
ExportsLockCreat(p) ==
    /\ pc[p] = "lock_creat"
    /\ \/ /\ ZFS_EXPORTS' = Ptr(<<>>)
          /\ IF call[p].op = "lock"
             THEN Return(p, SA_OK)
             ELSE /\ pc' = [pc EXCEPT ![p] = "copy"]
                  /\ UNCHANGED <<ret, exported, locals>>
          /\ NoFailure
          /\ UNCHANGED lock_owner
       \/ /\ Fails(p)
          /\ GuardFails(p, ERRNO, TRUE)
          /\ UNCHANGED exports
    /\ UNCHANGED <<world, tmpfile, exports_lock_fd, call, pre, base, ncalls>>

\* verify(nfs_copy_entries(filename, mountpoint) == SA_OK), nfs.c:691, 727.
CopyEntries(p) ==
    /\ pc[p] = "copy"
    /\ \/ /\ tmpfile' = [tmpfile EXCEPT ![p] =
                           nfs_copy_entries(ZFS_EXPORTS_FILE, @, call[p].mountpoint)]
          /\ base' = [base EXCEPT ![p] = tmpfile'[p]]
          /\ pc' = [pc EXCEPT ![p] =
                      IF call[p].op = "enable" THEN "shareopts" ELSE "fini"]
          /\ NoFailure
          /\ UNCHANGED lock_owner
       \/ /\ Fails(p)
          /\ Abort(p)
          /\ UNCHANGED <<tmpfile, base>>
    /\ UNCHANGED <<world, exports, exports_lock_fd, call, linux_opts, hosts,
                   hidx, error, ret, exported, pre, ncalls>>

\* nfs_enable_share, nfs.c:693-702: the options are translated; on an error
\* the temp file is unlinked and the call goes on to unlock and return it.
\* Otherwise the scan for hosts starts.
GetShareopts(p) ==
    /\ pc[p] = "shareopts"
    /\ LET r == get_linux_shareopts(call[p].shareopts)
           calls == foreach_nfs_host(call[p].shareopts)
       IN  IF r.rc # SA_OK
           THEN /\ error' = [error EXCEPT ![p] = r.rc]
                /\ tmpfile' = [tmpfile EXCEPT ![p] = NULL]
                /\ pc' = [pc EXCEPT ![p] = "unlock"]
                /\ UNCHANGED <<linux_opts, hosts, hidx>>
           ELSE /\ error' = [error EXCEPT ![p] = SA_OK]
                /\ linux_opts' = [linux_opts EXCEPT ![p] = r.linux_opts]
                /\ hosts' = [hosts EXCEPT ![p] = calls]
                /\ hidx' = [hidx EXCEPT ![p] = 0]
                /\ pc' = [pc EXCEPT ![p] = IF calls = <<>> THEN "fini" ELSE "hosts"]
                /\ UNCHANGED tmpfile
    /\ UNCHANGED <<world, exports, lock_owner, exports_lock_fd, call, ret, exported,
                   pre, base, fault, ncalls, faults>>

\* One invocation of nfs_add_entry by foreach_nfs_host_cb (nfs.c:199-207,
\* 403-442) and, when it fails, nfs_enable_share's cleanup (nfs.c:707-710).
AddEntry(p) ==
    /\ pc[p] = "hosts"
    /\ LET h == hosts[p][hidx[p] + 1]
       IN  \/ \E security \in PrintfString(h.security) :
                IF security = NULL
                THEN /\ Abort(p)
                     /\ NoFailure
                     /\ UNCHANGED <<tmpfile, hidx, error>>
                ELSE /\ tmpfile' = [tmpfile EXCEPT ![p] =
                            Ptr((IF @ = NULL THEN <<>> ELSE Deref(@))
                                \o nfs_add_entry(call[p].mountpoint, h.host,
                                     Deref(security), h.access, linux_opts[p]))]
                     /\ hidx' = [hidx EXCEPT ![p] = @ + 1]
                     /\ pc' = [pc EXCEPT ![p] =
                                 IF hidx[p] + 1 = Len(hosts[p]) THEN "fini" ELSE "hosts"]
                     /\ NoFailure
                     /\ UNCHANGED <<lock_owner, error>>
           \/ /\ Fails(p)
              /\ error' = [error EXCEPT ![p] = SA_SYSTEM_ERR]
              /\ tmpfile' = [tmpfile EXCEPT ![p] = NULL]
              /\ pc' = [pc EXCEPT ![p] = "unlock"]
              /\ UNCHANGED <<lock_owner, hidx>>
    /\ UNCHANGED <<world, exports, exports_lock_fd, call, linux_opts, hosts,
                   ret, exported, pre, base, ncalls>>

\* An nfs_fini_tmpfile that does not unlink the temp file when rename fails.
FiniTmpfileNoUnlink(p) ==
    /\ pc[p] = "fini"
    /\ \/ /\ ZFS_EXPORTS_FILE' = tmpfile[p]
          /\ tmpfile' = [tmpfile EXCEPT ![p] = NULL]
          /\ error' = [error EXCEPT ![p] = SA_OK]
          /\ NoFailure
       \/ /\ Fails(p)
          /\ error' = [error EXCEPT ![p] = SA_SYSTEM_ERR]
          /\ UNCHANGED <<exports, tmpfile>>
    /\ pc' = [pc EXCEPT ![p] = "unlock"]
    /\ UNCHANGED <<world, lock_owner, exports_lock_fd, call, linux_opts, hosts,
                   hidx, ret, exported, pre, base, ncalls>>

\* nfs_fini_tmpfile (nfs.c:603-615): rename puts the temp file in the place
\* of the exports file; when rename fails the temp file is unlinked.
FiniTmpfile(p) ==
    /\ pc[p] = "fini"
    /\ \/ /\ ZFS_EXPORTS_FILE' = tmpfile[p]
          /\ error' = [error EXCEPT ![p] = SA_OK]
          /\ NoFailure
       \/ /\ Fails(p)
          /\ error' = [error EXCEPT ![p] = SA_SYSTEM_ERR]
          /\ UNCHANGED exports
    /\ tmpfile' = [tmpfile EXCEPT ![p] = NULL]
    /\ pc' = [pc EXCEPT ![p] = "unlock"]
    /\ UNCHANGED <<world, lock_owner, exports_lock_fd, call, linux_opts, hosts,
                   hidx, ret, exported, pre, base, ncalls>>

\* nfs_exports_unlock (nfs.c:323-340) and, in nfs_enable_share and
\* nfs_disable_share, VERIFY0 of it and the return of error (nfs.c:711-712,
\* 729-730).  With the descriptor below 0 it returns -1 and touches
\* nothing.  Otherwise fcntl(F_UNLCK) answers (it fails on a descriptor
\* that was closed), close() drops the lock whatever it answered, and
\* exports_lock_fd is -1 again.
ExportsUnlock(p) ==
    /\ pc[p] = "unlock"
    /\ IF exports_lock_fd[p] < 0
       THEN /\ GuardFails(p, MINUS_ONE, FALSE)
            /\ NoFailure
            /\ UNCHANGED exports_lock_fd
       ELSE /\ exports_lock_fd' = [exports_lock_fd EXCEPT ![p] = -1]
            /\ IF lock_owner # p
               THEN /\ GuardFails(p, MINUS_ONE, TRUE)
                    /\ NoFailure
               ELSE \/ /\ lock_owner' = NoProc
                       /\ Return(p, IF call[p].op = "unlock" THEN SA_OK
                                    ELSE error[p])
                       /\ NoFailure
                    \/ /\ Fails(p)
                       /\ GuardFails(p, MINUS_ONE, TRUE)
    /\ UNCHANGED <<world, exports, tmpfile, call, pre, base, ncalls>>

\* nfs_is_shared (nfs.c:751-779): reads the exports file, takes no lock.
IsShared(p) ==
    /\ \E mountpoint \in world.mountpoints :
          /\ Begin(p, "is_shared", mountpoint, NULL, "idle")
          /\ ret' = [ret EXCEPT ![p] = nfs_is_shared(ZFS_EXPORTS_FILE, mountpoint)]
    /\ UNCHANGED <<world, exports, tmpfile, lock_owner, exports_lock_fd,
                   linux_opts, hosts, hidx, error, faults, exported>>

\* nfs_exports_lock called by the program itself (nfs.c:269-270).
NfsExportsLock(p) ==
    /\ Begin(p, "lock", <<>>, NULL, "lock")
    /\ UNCHANGED <<world, exports, tmpfile, lock_owner, exports_lock_fd,
                   linux_opts, hosts, hidx, error, ret, exported, faults>>

\* nfs_exports_unlock called by the program itself (nfs.c:323-324).
NfsExportsUnlock(p) ==
    /\ Begin(p, "unlock", <<>>, NULL, "unlock")
    /\ UNCHANGED <<world, exports, tmpfile, lock_owner, exports_lock_fd,
                   linux_opts, hosts, hidx, error, ret, exported, faults>>

\* The steps inside a call.
Continue(p) ==
    \/ InitTmpfile(p)
    \/ ExportsLock(p)
    \/ ExportsLockRemove(p)
    \/ ExportsLockCreat(p)
    \/ CopyEntries(p)
    \/ GetShareopts(p)
    \/ AddEntry(p)
    \/ FiniTmpfile(p)
    \/ ExportsUnlock(p)

Step(p) ==
    \/ EnableShare(p)
    \/ DisableShare(p)
    \/ IsShared(p)
    \/ Continue(p)

Next == \E p \in Procs : Step(p)

NextSeq == Step("p1")

NextGuard == Step("p1") \/ NfsExportsLock("p1") \/ NfsExportsUnlock("p1")

\* Two processes call concurrently.
Spec == Init /\ [][Next]_vars

\* One process makes its calls one after the other.
SpecSeq == InitSeq /\ [][NextSeq]_vars

\* One process that calls the guard itself as well.
SpecGuard == InitGuard /\ [][NextGuard]_vars

\* One process makes its calls one after the other; the export map follows
\* them.
SpecMap == InitMap /\ [][NextSeq]_vars

\* Two processes, each scheduled again and again while it has a step to
\* take inside a call; a process waiting in F_SETLKW has none until the
\* lock is free.
SpecFair == InitFair /\ [][Next]_vars /\ \A p \in Procs : WF_vars(Continue(p))

----------------------------------------------------------------------------
(* What the claims speak of *)

\* The bytes of a file; an absent file has none.
Content(file) == IF file = NULL THEN <<>> ELSE Deref(file)

\* The last call of p was op and has returned.
Returned(p, op) == pc[p] = "idle" /\ ncalls[p] > 0 /\ call[p].op = op

\* p holds the guard: it is between nfs_exports_lock's fcntl and the end of
\* nfs_exports_unlock.  nfs_copy_entries runs at "copy", nfs_add_entry at
\* "hosts", the rename at "fini".
Holding(p) ==
    pc[p] \in {"lock_remove", "lock_creat", "copy", "shareopts", "hosts",
               "fini", "unlock"}

\* An enable or disable of mountpoint m is running in p.
Targets(p, m) ==
    /\ pc[p] \notin {"idle", "aborted"}
    /\ call[p].op \in {"enable", "disable"}
    /\ streq(call[p].mountpoint, m)

\* The option string translates and yields at least one host entry.
YieldsHosts(shareopts) ==
    /\ get_linux_shareopts(shareopts).rc = SA_OK
    /\ foreach_nfs_host(shareopts) # <<>>

----------------------------------------------------------------------------
(* Claims under Spec: two processes *)

\* C1: when two processes each run one enable, on two distinct mountpoints
\* and with option strings that yield host entries, and no system call
\* fails, both calls return success and, once both have returned, the
\* exports file holds the entries of both mountpoints.
C1_ConcurrentEnablesKeepBoth ==
    (/\ \A p \in Procs :
            /\ Returned(p, "enable")
            /\ ncalls[p] = 1
            /\ ~fault[p]
            /\ YieldsHosts(call[p].shareopts)
     /\ ~streq(call["p1"].mountpoint, call["p2"].mountpoint))
    => /\ \A p \in Procs : ret[p] = SA_OK
       /\ \A p \in Procs :
            nfs_is_shared(ZFS_EXPORTS_FILE, call[p].mountpoint) = B_TRUE

\* C2: mutual exclusion.  At most one process is between a successful
\* acquire and its release, and a process that is there (where alone
\* nfs_copy_entries reads the exports file, nfs_add_entry appends to the temp
\* file and rename replaces the exports file) holds the fcntl lock and an
\* open lock descriptor.
C2_MutualExclusion ==
    /\ Cardinality({p \in Procs : Holding(p)}) <= 1
    /\ \A p \in Procs : Holding(p) => lock_owner = p /\ exports_lock_fd[p] # -1

\* C2's case: one process appends under the guard while the other waits in
\* F_SETLKW.
C2_Witness == pc["p1"] = "hosts" /\ pc["p2"] = "lock"

\* C3: a mountpoint that is exported, and that no running enable or disable
\* targets, stays exported across every step of the other calls: the
\* lock-free reader never finds it missing.
C3_ReaderSeesWholeTable ==
    [][\A m \in world.mountpoints :
          (/\ nfs_is_shared(ZFS_EXPORTS_FILE, m) = B_TRUE
           /\ \A p \in Procs : ~Targets(p, m) /\ ~Targets(p, m)')
          => nfs_is_shared(ZFS_EXPORTS_FILE', m) = B_TRUE]_vars

----------------------------------------------------------------------------
(* Claims under SpecSeq: one process, one call after the other *)

\* The text of a line before its first space is the mountpoint m.
PathFieldIs(line, m) ==
    LET space == strchr(line, " ")
    IN  space # 0 /\ Text(SubSeq(line, 1, space - 1)) = Text(m)

\* C4: when enable returns an error the exports file has the content it
\* had before the call.
C4_FailedEnableLeavesArtifact ==
    \A p \in Procs :
        (Returned(p, "enable") /\ ret[p] # SA_OK)
        => Content(ZFS_EXPORTS_FILE) = Content(pre[p])

\* C5: after a successful enable of mountpoint M the lines of the exports
\* file whose path field is M are exactly the lines that call generated,
\* each once.
C5_ReenableNoDuplicates ==
    \A p \in Procs :
        (Returned(p, "enable") /\ ret[p] = SA_OK)
        => Texts(SelectSeq(Lines(Content(ZFS_EXPORTS_FILE)),
                    LAMBDA line : PathFieldIs(line, call[p].mountpoint)))
           = Texts(RenderedLines(call[p]))

\* C6 as stated: after every successful enable, nfs_is_shared on the same
\* mountpoint answers true.
C6_EnableThenShared ==
    \A p \in Procs :
        (Returned(p, "enable") /\ ret[p] = SA_OK)
        => nfs_is_shared(ZFS_EXPORTS_FILE, call[p].mountpoint) = B_TRUE

\* C6 as amended: after a successful enable, nfs_is_shared on the same
\* mountpoint answers true exactly when the option string yields at least
\* one host entry and the mountpoint holds no space; with an absent option
\* string or one without ro/rw nothing is written and the answer is false.
C6_EnableThenSharedIffHosts ==
    \A p \in Procs :
        (Returned(p, "enable") /\ ret[p] = SA_OK)
        => (nfs_is_shared(ZFS_EXPORTS_FILE, call[p].mountpoint) = B_TRUE
            <=> (/\ foreach_nfs_host(call[p].shareopts) # <<>>
                 /\ strchr(call[p].mountpoint, " ") = 0))

\* C6's case: an enable with host entries has returned success and the
\* mountpoint is found exported.
C6_Witness ==
    /\ Returned("p1", "enable") /\ ret["p1"] = SA_OK
    /\ foreach_nfs_host(call["p1"].shareopts) # <<>>
    /\ nfs_is_shared(ZFS_EXPORTS_FILE, call["p1"].mountpoint) = B_TRUE

\* C7: after disable returns success, nfs_is_shared on the same mountpoint
\* answers false; and whatever the exports file holds, the copy
\* nfs_copy_entries makes of it for a mountpoint holds no line that
\* nfs_is_shared takes for that mountpoint's.
C7_DisableThenNotShared ==
    /\ \A p \in Procs :
          (Returned(p, "disable") /\ ret[p] = SA_OK)
          => nfs_is_shared(ZFS_EXPORTS_FILE, call[p].mountpoint) = B_FALSE
    /\ \A m \in world.mountpoints :
          nfs_is_shared(nfs_copy_entries(ZFS_EXPORTS_FILE, NULL, m), m) = B_FALSE

\* C7's case: the mountpoint was exported when the disable started.
C7_Witness ==
    /\ Returned("p1", "disable") /\ ret["p1"] = SA_OK
    /\ nfs_is_shared(pre["p1"], call["p1"].mountpoint) = B_TRUE

\* C8: disable of a mountpoint that has no line in the exports file returns
\* success (no system call failing) and leaves the file's lines as they
\* were.
C8_DisableAbsentIsNoop ==
    \A p \in Procs :
        (/\ Returned(p, "disable")
         /\ ~fault[p]
         /\ nfs_is_shared(pre[p], call[p].mountpoint) = B_FALSE)
        => /\ ret[p] = SA_OK
           /\ Content(ZFS_EXPORTS_FILE) = Content(pre[p])

\* The scan of p has just expanded the option string whose text is t.
Expanded(p, t) ==
    /\ pc[p] = "hosts"
    /\ hidx[p] = 0
    /\ call[p].shareopts # NULL
    /\ Text(Deref(call[p].shareopts)) = t

\* The host entries are host1 and host2, in that order, with access rw and
\* security mode sec.
TwoHostsWith(entries, sec) ==
    /\ Len(entries) = 2
    /\ Text(entries[1].host) = "host1"
    /\ Text(entries[2].host) = "host2"
    /\ \A i \in 1..2 :
          /\ Text(entries[i].access) = "rw"
          /\ entries[i].security # NULL
          /\ Text(Deref(entries[i].security)) = sec

\* C9 as stated: rw=host1:host2,sec=krb5 expands to host1 and host2, both
\* rw, both with security mode krb5.
C9_HostsGetKrb5 ==
    \A p \in Procs :
        Expanded(p, "rw=host1:host2,sec=krb5") => TwoHostsWith(hosts[p], "krb5")

\* C9 as amended: rw=host1:host2,sec=krb5 expands to host1 and host2, in
\* that order, both rw, both with the default security mode sys: the sec
\* token follows the rw token and does not reach back.
C9_HostsGetSys ==
    \A p \in Procs :
        Expanded(p, "rw=host1:host2,sec=krb5") => TwoHostsWith(hosts[p], "sys")

\* C9's case: the option string has been expanded.
C9_Witness == Expanded("p1", "rw=host1:host2,sec=krb5") /\ Len(hosts["p1"]) = 2

\* The text of one exports line, as the file format gives it:
\* <mountpoint> <host>(sec=<mode>,<access>,<translated options>).
LineText(mountpoint, entry, opts) ==
    Text(mountpoint) \o " "
      \o (IF entry.host # <<>> /\ Head(entry.host) = "@"
          THEN Text(Tail(entry.host)) ELSE Text(entry.host))
      \o "(sec="
      \o (IF entry.security = NULL THEN "(null)" ELSE Text(Deref(entry.security)))
      \o "," \o Text(entry.access) \o "," \o opts \o ")\n"

RECURSIVE EntriesText(_, _, _)
EntriesText(mountpoint, entries, opts) ==
    IF entries = <<>> THEN ""
    ELSE LineText(mountpoint, Head(entries), opts)
         \o EntriesText(mountpoint, Tail(entries), opts)

\* C10: a successful enable leaves in the exports file, after the lines it
\* copied, one line per host entry in encounter order, of the form
\* <mountpoint> <host>(sec=<mode>,<access>,<translated options>); for /data
\* and rw=192.168.1.0/24,sec=sys,no_root_squash that is the one line
\* /data 192.168.1.0/24(sec=sys,rw,no_subtree_check,mountpoint,no_root_squash).
C10_LinesWritten ==
    \A p \in Procs :
        (Returned(p, "enable") /\ ret[p] = SA_OK)
        => /\ Text(Content(ZFS_EXPORTS_FILE))
                = Text(Content(base[p]))
                  \o EntriesText(call[p].mountpoint,
                        foreach_nfs_host(call[p].shareopts),
                        Text(Content(get_linux_shareopts(call[p].shareopts).linux_opts)))
           /\ (/\ Text(call[p].mountpoint) = "/data"
               /\ call[p].shareopts # NULL
               /\ Text(Deref(call[p].shareopts))
                    = "rw=192.168.1.0/24,sec=sys,no_root_squash")
              => /\ Len(foreach_nfs_host(call[p].shareopts)) = 1
                 /\ Text(Content(ZFS_EXPORTS_FILE))
                      = Text(Content(base[p]))
                        \o "/data 192.168.1.0/24(sec=sys,rw,no_subtree_check,mountpoint,no_root_squash)\n"

\* C10's case: the enable of /data with the example options has returned
\* success.
C10_Witness ==
    /\ Returned("p1", "enable") /\ ret["p1"] = SA_OK
    /\ Text(call["p1"].mountpoint) = "/data"
    /\ call["p1"].shareopts = Opt_example

\* The lines of a file whose path field is not m, in order (lines with no
\* space among them).
OtherLines(file, m) ==
    SelectSeq(Lines(Content(file)), LAMBDA line : ~PathFieldIs(line, m))

\* C11: a successful acquire creates an empty exports file only when there
\* was none; an exports file that existed has, when nfs_copy_entries is
\* about to read it, the content it had before the acquire.
C11_AcquireKeepsArtifact ==
    \A p \in Procs :
        (pc[p] = "copy" /\ call[p].op \in {"enable", "disable"})
        => ZFS_EXPORTS_FILE = (IF pre[p] = NULL THEN Ptr(<<>>) ELSE pre[p])

\* C12: a successful enable or disable of mountpoint M leaves the lines of
\* the exports file whose path field is not M as they were, in their order;
\* the file is these lines and, for enable, M's new lines after them.
C12_OtherLinesKept ==
    \A p \in Procs :
        ((Returned(p, "enable") \/ Returned(p, "disable")) /\ ret[p] = SA_OK)
        => Texts(Lines(Content(ZFS_EXPORTS_FILE)))
           = Texts(OtherLines(pre[p], call[p].mountpoint))
             \o (IF call[p].op = "enable" THEN Texts(RenderedLines(call[p]))
                 ELSE <<>>)

----------------------------------------------------------------------------
(* The option string as the specification reads it *)

\* The places of the chunk c in s, with the two ends of s.
Cuts(s, c) == {0, Len(s) + 1} \cup {i \in 1..Len(s) : s[i] = c}

\* The k-th cut, counted from 0.
Cut(s, c, k) ==
    CHOOSE x \in Cuts(s, c) : Cardinality({y \in Cuts(s, c) : y < x}) = k

\* The pieces of s between the chunks c, in order, empty ones included.
Pieces(s, c) ==
    [k \in 1..(Cardinality(Cuts(s, c)) - 1) |->
        SubSeq(s, Cut(s, c, k - 1) + 1, Cut(s, c, k) - 1)]

\* The tokens of an option string: the non-empty pieces between commas,
\* each a key and, after its first '=', a value; "on" reads "rw,crossmnt"
\* and an absent string has no token.
TokenList(shareopts) ==
    IF shareopts = NULL THEN <<>>
    ELSE LET s == IF Text(Deref(shareopts)) = "on"
                  THEN <<"rw", ",", "crossmnt">> ELSE Deref(shareopts)
             kept == SelectSeq(Pieces(s, ","), LAMBDA g : g # <<>>)
         IN  [i \in 1..Len(kept) |->
                LET eq == Cut(kept[i], "=", 1)
                IN  [key |-> Text(SubSeq(kept[i], 1, eq - 1)),
                     valued |-> eq <= Len(kept[i]),
                     value |-> SubSeq(kept[i], eq + 1, Len(kept[i]))]]

\* The security mode in force at token i: the value of the nearest sec token
\* to its left (NULL when that token has none), or sys.
SecurityAt(toks, i) ==
    LET left == {j \in 1..(i - 1) : toks[j].key = "sec"}
        near == CHOOSE j \in left : \A k \in left : k <= j
    IN  IF left = {} THEN Ptr(<<"sys">>)
        ELSE IF toks[near].valued THEN Ptr(toks[near].value) ELSE NULL

\* The host entries the tokens from i on stand for: for each ro or rw token
\* one entry per colon-separated specifier ("*" when it has no value), with
\* its key as access and the security mode in force.
RECURSIVE HostEntries(_, _)
HostEntries(toks, i) ==
    IF i > Len(toks) THEN <<>>
    ELSE (IF toks[i].key \in {"ro", "rw"}
          THEN LET specs == IF toks[i].valued THEN Pieces(toks[i].value, ":")
                            ELSE <<(<<"*">>)>>
               IN  [k \in 1..Len(specs) |->
                      [host |-> specs[k], access |-> toks[i].key,
                       security |-> SecurityAt(toks, i)]]
          ELSE <<>>)
         \o HostEntries(toks, i + 1)

\* Two nullable strings with the same text.
SameString(a, b) ==
    IF a = NULL \/ b = NULL THEN a = NULL /\ b = NULL
    ELSE Text(Deref(a)) = Text(Deref(b))

\* The scan of p for hosts has taken place.
Scanned(p) == call[p].op = "enable" /\ pc[p] \in {"hosts", "fini"}

\* C13: the security mode of each host entry is the value of the nearest
\* sec token to the left of its ro/rw token, or sys when none precedes it;
\* a sec token changes nothing for the ro/rw tokens before it.
C13_SecurityIsNearestLeft ==
    \A p \in Procs :
        Scanned(p)
        => LET want == HostEntries(TokenList(call[p].shareopts), 1)
           IN  /\ Len(hosts[p]) = Len(want)
               /\ \A i \in 1..Len(want) :
                     SameString(hosts[p][i].security, want[i].security)

\* C13's case: two sec tokens and two ro/rw tokens, each after its own.
C13_Witness ==
    /\ Scanned("p1")
    /\ call["p1"].shareopts = Opt_sec_twice
    /\ Len(hosts["p1"]) = 3
    /\ Text(Deref(hosts["p1"][1].security)) = "krb5"
    /\ Text(Deref(hosts["p1"][3].security)) = "krb5i"

\* A token's key after the renaming of anon, root_mapping and nosub.
RenamedKey(t) ==
    IF t.key \in {"anon", "root_mapping"} THEN "anonuid"
    ELSE IF t.key = "nosub" THEN "subtree_check"
    ELSE t.key

\* What translation puts out for one token: nothing for ro, rw and sec;
\* root_squash before the renamed root_mapping; otherwise the token with its
\* key renamed and its value, if any, kept.
TokenOut(t) ==
    IF t.key \in {"ro", "rw", "sec"} THEN <<>>
    ELSE (IF t.key = "root_mapping" THEN <<"root_squash">> ELSE <<>>)
         \o <<RenamedKey(t)
              \o (IF t.valued THEN "=" \o Text(t.value) ELSE "")>>

RECURSIVE TokensOut(_)
TokensOut(toks) ==
    IF toks = <<>> THEN <<>> ELSE TokenOut(Head(toks)) \o TokensOut(Tail(toks))

\* Strings joined with commas.
RECURSIVE CommaJoined(_)
CommaJoined(list) ==
    IF list = <<>> THEN ""
    ELSE IF Len(list) = 1 THEN list[1]
    ELSE list[1] \o "," \o CommaJoined(Tail(list))

\* Some token's key is, after renaming, outside the allow-list.
HasUnknownKey(toks) ==
    \E i \in 1..Len(toks) :
        /\ toks[i].key \notin {"ro", "rw", "sec"}
        /\ RenamedKey(toks[i]) \notin AllowedKeys

\* C14: translation fails with SA_SYNTAX_ERR and no output exactly when
\* some non-empty token's renamed key is outside the allow-list; otherwise
\* it gives no_subtree_check, mountpoint and then, in input order and with
\* repetitions kept, each token's output.
C14_TranslationIsTokenwise ==
    \A p \in Procs :
        LET toks == TokenList(call[p].shareopts)
        IN  /\ Scanned(p)
               => /\ ~HasUnknownKey(toks)
                  /\ linux_opts[p] # NULL
                  /\ Text(Deref(linux_opts[p]))
                       = CommaJoined(<<"no_subtree_check", "mountpoint">>
                                     \o TokensOut(toks))
            /\ (call[p].op = "enable" /\ pc[p] = "unlock"
                  /\ error[p] = SA_SYNTAX_ERR)
               => /\ HasUnknownKey(toks)
                  /\ get_linux_shareopts(call[p].shareopts).linux_opts = NULL

\* C14's case: renamed keys, an empty token and a repeated one.
C14_Witness ==
    /\ Scanned("p1")
    /\ call["p1"].shareopts = Opt_renames
    /\ Text(Deref(linux_opts["p1"]))
         = "no_subtree_check,mountpoint,anonuid=0,root_squash,anonuid=5,subtree_check,crossmnt,crossmnt"

\* C15: host expansion gives, for each ro or rw token from left to right,
\* one entry per colon-separated specifier of its value, in order, with the
\* token's key as access; a token without a value gives the one host *; a
\* leading @ is removed from a specifier and nothing else is changed; other
\* tokens give no entry.
C15_HostsPerSpecifier ==
    \A p \in Procs :
        Scanned(p)
        => LET want == HostEntries(TokenList(call[p].shareopts), 1)
           IN  /\ Len(hosts[p]) = Len(want)
               /\ \A i \in 1..Len(want) :
                     /\ Text(hosts[p][i].access) = want[i].access
                     /\ Text(get_linux_hostspec(hosts[p][i].host))
                          = Text(IF want[i].host # <<>> /\ want[i].host[1] = "@"
                                 THEN Tail(want[i].host) ELSE want[i].host)

\* C15's case: a specifier with a leading @ has been expanded.
C15_Witness ==
    /\ Scanned("p1")
    /\ call["p1"].shareopts = Opt_sec_ro
    /\ Len(hosts["p1"]) = 1
    /\ Text(get_linux_hostspec(hosts["p1"][1].host)) = "10.0.0.0/8"

----------------------------------------------------------------------------
(* Claims under SpecGuard: one process that calls the guard itself *)

\* C16: nfs_exports_unlock called by a process that does not hold the lock
\* returns an error and changes neither the lock, nor the lock descriptor,
\* nor the exports file; nfs_exports_lock called by the process that holds
\* the lock ends the process and returns nothing.
C16_GuardMisuse ==
    [][\A p \in Procs :
          /\ (/\ call[p].op = "unlock" /\ pc[p] = "unlock"
              /\ lock_owner # p
              /\ pc'[p] # "unlock")
             => /\ pc'[p] = "idle"
                /\ ret'[p] # SA_OK
                /\ lock_owner' = lock_owner
                /\ exports_lock_fd' = exports_lock_fd
                /\ ZFS_EXPORTS_FILE' = ZFS_EXPORTS_FILE
          /\ (/\ call[p].op = "lock" /\ pc[p] = "lock"
              /\ lock_owner = p
              /\ pc'[p] # "lock")
             => pc'[p] = "aborted"]_vars

\* C20: when nfs_exports_lock returns an error the process holds no lock
\* and exports_lock_fd is -1, so that a following nfs_exports_unlock finds
\* the lock not held and a following nfs_exports_lock passes its verify.
C20_FailedAcquireLeavesNotHeld ==
    \A p \in Procs :
        (Returned(p, "lock") /\ ret[p] # SA_OK)
        => lock_owner # p /\ exports_lock_fd[p] = -1

----------------------------------------------------------------------------
(* Further claims under SpecSeq *)

\* Every line of the exports file whose path field is m is one of lines.
PathLinesAmong(m, lines) ==
    \A i \in 1..Len(Lines(Content(ZFS_EXPORTS_FILE))) :
        LET line == Lines(Content(ZFS_EXPORTS_FILE))[i]
        IN  PathFieldIs(line, m)
            => \E j \in 1..Len(lines) : Text(lines[j]) = Text(line)

----------------------------------------------------------------------------
(* Claims under SpecFair: two processes, fairly scheduled *)

\* A call of enable or disable by p is under way.
InCall(p) == pc[p] \notin {"idle", "aborted"}

\* A call of p that has returned has left the lock released: the process
\* holds no lock and its descriptor is -1.
ReleasedOnReturn ==
    \A p \in Procs :
        (Returned(p, "enable") \/ Returned(p, "disable"))
        => lock_owner # p /\ exports_lock_fd[p] = -1

\* C18 as stated: every call releases the guard before it returns; every
\* process waiting in the acquire is eventually granted the guard; every
\* enable or disable call eventually returns.
C18_EveryCallReturns ==
    /\ []ReleasedOnReturn
    /\ \A p \in Procs : (pc[p] = "lock") ~> (pc[p] # "lock")
    /\ \A p \in Procs : InCall(p) ~> (pc[p] = "idle")

\* What the code does guarantee: every call releases the guard before it
\* returns; every process waiting in the acquire eventually leaves it; every
\* enable or disable call eventually returns or ends the process (a failed
\* verify or VERIFY0), and a process that has ended holds no lock.
C18_EveryCallReturnsOrAborts ==
    /\ []ReleasedOnReturn
    /\ [](\A p \in Procs : pc[p] = "aborted" => lock_owner # p)
    /\ \A p \in Procs : (pc[p] = "lock") ~> (pc[p] # "lock")
    /\ \A p \in Procs : InCall(p) ~> (pc[p] \in {"idle", "aborted"})

\* A process waits in F_SETLKW while the other holds the lock
\* on an error path (the translation has failed).
C18_Witness ==
    /\ pc["p2"] = "lock"
    /\ pc["p1"] = "unlock" /\ error["p1"] = SA_SYNTAX_ERR
    /\ lock_owner = "p1"

----------------------------------------------------------------------------
(* Claims under SpecMap: sequential calls against the export map *)

\* The lines of a file whose path field is m, in order.
PathLines(file, m) ==
    SelectSeq(Lines(Content(file)), LAMBDA line : PathFieldIs(line, m))

\* C19: between sequential calls, starting from an absent exports file, the
\* exports file equals the export map: for every mountpoint M it holds the
\* lines of M's most recent successful enable when no successful disable of
\* M followed, and no line of M otherwise; it holds no other line; and
\* nfs_is_shared(M) is true exactly when M's set of lines is not empty.
C19_ArtifactIsExportMap ==
    pc["p1"] = "idle"
    => /\ \A m \in world.mountpoints :
            /\ Texts(PathLines(ZFS_EXPORTS_FILE, m)) = exported[m]
            /\ (nfs_is_shared(ZFS_EXPORTS_FILE, m) = B_TRUE) <=> (exported[m] # <<>>)
       /\ \A i \in 1..Len(Lines(Content(ZFS_EXPORTS_FILE))) :
            \E m \in world.mountpoints :
                PathFieldIs(Lines(Content(ZFS_EXPORTS_FILE))[i], m)

----------------------------------------------------------------------------
(* A further claim under Spec: the temp file *)

====
